---- MODULE Spec2Model ----
(***************************************************************************)
(* Model of the template-driven field extraction engine of src/app.py:     *)
(* postprocess_value, extract_fields and the two request handlers          *)
(* extract_data and extract_custom.                                        *)
(*                                                                         *)
(* Strings are sequences of one-character strings.  Confidences are kept   *)
(* in exact tenths (0.6 is 6, 1.0 is 10); an average is the pair           *)
(* <<sum, count>> of the division the code performs.  Python's None is     *)
(* the value None below, a string s is Str(s).  An exception is named by   *)
(* its Python class; "" means that nothing was raised.                     *)
(***************************************************************************)
EXTENDS Integers, Sequences, FiniteSets, TLC

VARIABLES TEMPLATES, pc, request, template, text, idx, fields, confidences,
          ret, response, calls, pp

vars == <<TEMPLATES, pc, request, template, text, idx, fields, confidences,
          ret, response, calls, pp>>

(***************************************************************************)
(* Bounds of the model.                                                    *)
(***************************************************************************)
\* number of fields of a generated template
MaxFields == 2
\* length of a generated raw string handed to postprocess_value
MaxLen == 2
\* number of concurrent requests
NumRequests == 2

Reqs == 1..NumRequests

(***************************************************************************)
(* Characters.                                                             *)
(***************************************************************************)
Digit == {"0","1","2","3","4","5","6","7","8","9"}
UpperSeq == <<"A","B","C","D","E","F","G","H","I","J","K","L","M",
              "N","O","P","Q","R","S","T","U","V","W","X","Y","Z">>
LowerSeq == <<"a","b","c","d","e","f","g","h","i","j","k","l","m",
              "n","o","p","q","r","s","t","u","v","w","x","y","z">>
Upper == {UpperSeq[i] : i \in 1..26}
Lower == {LowerSeq[i] : i \in 1..26}
\* the characters of \s and of str.strip() that occur in the model's texts
Space == {" ", "\n"}

Min(a, b) == IF a < b THEN a ELSE b
SetMax(S) == CHOOSE x \in S : \A y \in S : y <= x
SetMin(S) == CHOOSE x \in S : \A y \in S : x <= y

None == [none |-> TRUE, str |-> <<>>]
Str(s) == [none |-> FALSE, str |-> s]

(***************************************************************************)
(* Pattern sources: the built-in catalog, the templates of                 *)
(* test_examples.py, and small patterns that exercise the remaining        *)
(* branches of extract_fields.                                             *)
(***************************************************************************)
\* 58 characters
PatInvoiceNumber ==
    <<"(","?",":","I","n","v","o","i","c","e","\\","s","*","(","?",":","N","o","\\",".",
      "?","|","#",")","\\","s","*",")","\\","s","*","(","?","P","<","v","a","l","u","e",
      ">","[","A","-","Z","0","-","9","\\","-","_","/","]","{","3",",","}",")">>
\* 73 characters
PatInvoiceDate ==
    <<"(","?",":","D","a","t","e",")","[",":","\\","s","]","*","?","(","?","P","<","v",
      "a","l","u","e",">","\\","d","{","2","}","[","/","-","]","\\","d","{","2","}","[",
      "/","-","]","\\","d","{","4","}","|","\\","d","{","4","}","[","/","-","]","\\",
      "d","{","2","}","[","/","-","]","\\","d","{","2","}",")">>
\* 73 characters
PatInvoiceTotal ==
    <<"(","?",":","T","o","t","a","l",")","[",":","\\","s","]","*","?","(","?","P","<",
      "v","a","l","u","e",">","[","\\","p","{","S","c","}","]","?","\\","s","?","\\",
      "d","{","1",",","3","}","(","?",":","[","\\","s",",","]","\\","d","{","3","}",")",
      "*","(","?",":","\\",".","\\","d","{","2","}",")","?",")">>
\* 29 characters
PatCurrency ==
    <<"(","?","P","<","v","a","l","u","e",">","U","S","D","|","E","U","R","|","G","B",
      "P","|","\\","$","|","€","|","£",")">>
\* 30 characters
PatStoreName ==
    <<"(","?","P","<","v","a","l","u","e",">","[","A","-","Z","a","-","z","\\","s","&",
      ".",",","]","{","2",",","5","0","}",")">>
\* 80 characters
PatReceiptTotal ==
    <<"(","?",":","T","o","t","a","l","|","A","m","o","u","n","t",")","[",":","\\","s",
      "]","*","?","(","?","P","<","v","a","l","u","e",">","[","\\","p","{","S","c","}",
      "]","?","\\","s","?","\\","d","{","1",",","3","}","(","?",":","[","\\","s",",",
      "]","\\","d","{","3","}",")","*","(","?",":","\\",".","\\","d","{","2","}",")",
      "?",")">>
\* 58 characters
PatReceiptDate ==
    <<"(","?","P","<","v","a","l","u","e",">","\\","d","{","2","}","[","/","-","]","\\",
      "d","{","2","}","[","/","-","]","\\","d","{","4","}","|","\\","d","{","4","}","[",
      "/","-","]","\\","d","{","2","}","[","/","-","]","\\","d","{","2","}",")">>
\* 28 characters
PatSampleAmount ==
    <<"T","o","t","a","l",":","\\","s","*","(","?","P","<","v","a","l","u","e",">","\\",
      "d","+","\\",".","\\","d","+",")">>
\* 36 characters
PatSampleDate ==
    <<"D","a","t","e",":","\\","s","*","(","?","P","<","v","a","l","u","e",">","\\","d",
      "{","2","}","/","\\","d","{","2","}","/","\\","d","{","4","}",")">>
\* 36 characters
PatCustomInvoiceNumber ==
    <<"I","n","v","o","i","c","e"," ","N","o",":","\\","s","*","(","?","P","<","v","a",
      "l","u","e",">","[","A","-","Z","0","-","9","\\","-","]","+",")">>
\* 33 characters
PatCustomTotal ==
    <<"T","o","t","a","l",":","\\","s","*","(","?","P","<","v","a","l","u","e",">","\\",
      "$","[","\\","d",",","]","+","\\",".","\\","d","+",")">>
\* capture group 1, no named group
\* 5 characters
PatDigits ==
    <<"(","\\","d","+",")">>
\* no group at all
\* 6 characters
PatWord ==
    <<"[","a","-","z","]","+">>
\* does not compile: missing ), unterminated subpattern
\* 1 characters
PatUnclosed ==
    <<"(">>
\* the value group is optional and takes no part in a match on digits alone
\* 16 characters
PatOptionalHash ==
    <<"(","?","P","<","v","a","l","u","e",">","#",")","?","\\","d","+">>
\* the expressions of postprocess_value and of the confidence heuristic
\* 29 characters
PostDateRe ==
    <<"(","\\","d","{","2","}",")","[","/","-","]","(","\\","d","{","2","}",")","[","/",
      "-","]","(","\\","d","{","4","}",")">>
\* 8 characters
PostCurrencySymRe ==
    <<"[","\\","p","{","S","c","}","]">>
\* 5 characters
PostCurrencySepRe ==
    <<"[",",","\\","s","]">>
\* 18 characters
ShapeIdRe ==
    <<"^","[","A","-","Z","0","-","9","\\","-","_","/","]","{","3",",","}","$">>
\* 19 characters
ShapeDateRe ==
    <<"^","\\","d","{","4","}","-","\\","d","{","2","}","-","\\","d","{","2","}","$">>
\* 15 characters
ShapeNumRe ==
    <<"^","\\","d","+","(","\\",".","\\","d","{","2","}",")","?","$">>

(***************************************************************************)
(* Texts.                                                                  *)
(***************************************************************************)
\* the text of the sample PDF of test_examples.py
\* 80 characters
TextSample ==
    <<"I","N","V","O","I","C","E","\n","I","n","v","o","i","c","e"," ","N","o",":"," ",
      "I","N","V","-","2","0","2","4","-","0","0","1","\n","D","a","t","e",":"," ","0",
      "1","/","1","5","/","2","0","2","4","\n","T","o","t","a","l",":"," ","$","1",",",
      "2","5","0",".","0","0","\n","C","u","r","r","e","n","c","y",":"," ","U","S","D">>
\* 15 characters
TextReceipt ==
    <<"T","o","t","a","l",":"," ","9","9",".","5","0"," ","#","7">>
\* 11 characters after strip(), 6 of them not whitespace
\* 11 characters
TextSparse ==
    <<"."," ","."," ","."," ","."," ","."," ",".">>
\* 10 characters, 3 after strip()
\* 10 characters
TextPadded ==
    <<" "," "," ","a","b","c"," "," "," "," ">>
TextEmpty == <<>>

(***************************************************************************)
(* The regular expression engine (module re).  A compiled expression is a  *)
(* sequence of alternatives tried in order; an alternative is a sequence   *)
(* of atoms, each a character class with a repetition range (max -1: no    *)
(* upper limit), matched by backtracking, greedy unless lazy.  Groups are  *)
(* spans of atoms.                                                         *)
(***************************************************************************)
\* re.IGNORECASE on a character class: every letter with its other case
OtherCase ==
    [ch \in Upper \cup Lower |->
        LET i == CHOOSE j \in 1..26 : UpperSeq[j] = ch \/ LowerSeq[j] = ch
        IN IF UpperSeq[i] = ch THEN LowerSeq[i] ELSE UpperSeq[i]]
Fold(cls) == cls \cup {OtherCase[ch] : ch \in cls \cap DOMAIN OtherCase}

Rep(cls, lo, hi) == [cls |-> cls, min |-> lo, max |-> hi, lazy |-> FALSE]
RepLazy(cls, lo, hi) == [cls |-> cls, min |-> lo, max |-> hi, lazy |-> TRUE]
One(cls) == Rep(cls, 1, 1)
\* a literal string under re.IGNORECASE
Lits(s) == [i \in 1..Len(s) |-> One(Fold({s[i]}))]
\* a literal string, case-sensitive
LitsExact(s) == [i \in 1..Len(s) |-> One({s[i]})]
Group(from, to) == [from |-> from, to |-> to, opt |-> FALSE]
OptGroup(from, to) == [from |-> from, to |-> to, opt |-> TRUE]
Alt(atoms, groups) == [atoms |-> atoms, groups |-> groups, dollar |-> FALSE]
AltDollar(atoms, groups) == [atoms |-> atoms, groups |-> groups, dollar |-> TRUE]
Compiled(alts, names) == [ok |-> TRUE, alts |-> alts, names |-> names]
CompileError == [ok |-> FALSE, alts |-> <<>>, names |-> <<>>]
NoNames == <<>>
ValueIsGroup1 == [value |-> 1]

\* a backslash followed by an ASCII letter that is no escape of re is an error
ValidEscapeLetters ==
    {"a","b","f","n","r","t","v","x","u","U","N","d","D","s","S","w","W","A","B","Z"}

\* the number of backslashes that immediately precede position i
BackslashesBefore(src, i) ==
    LET others == {j \in 1..(i - 1) : src[j] # "\\"}
    IN (i - 1) - (IF others = {} THEN 0 ELSE SetMax(others))

\* a backslash that starts an escape: an even number of backslashes precedes it
StartsEscape(src, i) == src[i] = "\\" /\ BackslashesBefore(src, i) % 2 = 0

BadEscape(src) ==
    \E i \in 1..Len(src) :
        /\ StartsEscape(src, i)
        /\ \/ i = Len(src)
           \/ src[i + 1] \in (Upper \cup Lower) \ ValidEscapeLetters

IdClass == Upper \cup Digit \cup {"-", "_", "/"}
DateSep == {"/", "-"}
DayFirst == <<Rep(Digit, 2, 2), One(DateSep), Rep(Digit, 2, 2), One(DateSep), Rep(Digit, 4, 4)>>
YearFirst == <<Rep(Digit, 4, 4), One(DateSep), Rep(Digit, 2, 2), One(DateSep), Rep(Digit, 2, 2)>>
Ws == Rep(Space, 0, -1)

\* re.compile(pattern, re.IGNORECASE | re.MULTILINE) on the pattern sources above
CompileField(src) ==
    IF BadEscape(src) THEN CompileError
    ELSE CASE src = PatInvoiceNumber ->
                Compiled(<<Alt(Lits(<<"I","n","v","o","i","c","e">>) \o <<Ws>>
                               \o Lits(<<"N","o">>) \o <<Rep({"."}, 0, 1), Ws, Ws>>
                               \o <<Rep(Fold(IdClass), 3, -1)>>, <<Group(14, 14)>>),
                           Alt(Lits(<<"I","n","v","o","i","c","e">>) \o <<Ws>>
                               \o Lits(<<"#">>) \o <<Ws, Ws>>
                               \o <<Rep(Fold(IdClass), 3, -1)>>, <<Group(12, 12)>>)>>,
                         ValueIsGroup1)
           [] src = PatInvoiceDate ->
                Compiled(<<Alt(Lits(<<"D","a","t","e">>) \o <<RepLazy({":"} \cup Space, 0, -1)>>
                               \o DayFirst, <<Group(6, 10)>>),
                           Alt(Lits(<<"D","a","t","e">>) \o <<RepLazy({":"} \cup Space, 0, -1)>>
                               \o YearFirst, <<Group(6, 10)>>)>>,
                         ValueIsGroup1)
           [] src = PatCurrency ->
                Compiled(<<Alt(Lits(<<"U","S","D">>), <<Group(1, 3)>>),
                           Alt(Lits(<<"E","U","R">>), <<Group(1, 3)>>),
                           Alt(Lits(<<"G","B","P">>), <<Group(1, 3)>>),
                           Alt(Lits(<<"$">>), <<Group(1, 1)>>),
                           Alt(Lits(<<"€">>), <<Group(1, 1)>>),
                           Alt(Lits(<<"£">>), <<Group(1, 1)>>)>>,
                         ValueIsGroup1)
           [] src = PatStoreName ->
                Compiled(<<Alt(<<Rep(Upper \cup Lower \cup Space \cup {"&", ".", ","}, 2, 50)>>,
                               <<Group(1, 1)>>)>>,
                         ValueIsGroup1)
           [] src = PatReceiptDate ->
                Compiled(<<Alt(DayFirst, <<Group(1, 5)>>), Alt(YearFirst, <<Group(1, 5)>>)>>,
                         ValueIsGroup1)
           [] src = PatSampleAmount ->
                Compiled(<<Alt(Lits(<<"T","o","t","a","l",":">>)
                               \o <<Ws, Rep(Digit, 1, -1), One({"."}), Rep(Digit, 1, -1)>>,
                               <<Group(8, 10)>>)>>,
                         ValueIsGroup1)
           [] src = PatSampleDate ->
                Compiled(<<Alt(Lits(<<"D","a","t","e",":">>)
                               \o <<Ws, Rep(Digit, 2, 2), One({"/"}), Rep(Digit, 2, 2),
                                    One({"/"}), Rep(Digit, 4, 4)>>,
                               <<Group(7, 11)>>)>>,
                         ValueIsGroup1)
           [] src = PatCustomInvoiceNumber ->
                Compiled(<<Alt(Lits(<<"I","n","v","o","i","c","e"," ","N","o",":">>)
                               \o <<Ws, Rep(Fold(Upper \cup Digit \cup {"-"}), 1, -1)>>,
                               <<Group(13, 13)>>)>>,
                         ValueIsGroup1)
           [] src = PatCustomTotal ->
                Compiled(<<Alt(Lits(<<"T","o","t","a","l",":">>)
                               \o <<Ws, One({"$"}), Rep(Digit \cup {","}, 1, -1), One({"."}),
                                    Rep(Digit, 1, -1)>>,
                               <<Group(8, 11)>>)>>,
                         ValueIsGroup1)
           [] src = PatDigits ->
                Compiled(<<Alt(<<Rep(Digit, 1, -1)>>, <<Group(1, 1)>>)>>, NoNames)
           [] src = PatWord ->
                Compiled(<<Alt(<<Rep(Fold(Lower), 1, -1)>>, <<>>)>>, NoNames)
           [] src = PatOptionalHash ->
                Compiled(<<Alt(<<Rep({"#"}, 0, 1), Rep(Digit, 1, -1)>>, <<OptGroup(1, 1)>>)>>,
                         ValueIsGroup1)
           [] src = PatUnclosed -> CompileError

\* re.compile(pattern) without flags, for the expressions app.py itself uses
CompilePlain(src) ==
    IF BadEscape(src) THEN CompileError
    ELSE CASE src = PostDateRe ->
                Compiled(<<Alt(DayFirst, <<Group(1, 1), Group(3, 3), Group(5, 5)>>)>>, NoNames)
           [] src = PostCurrencySepRe ->
                Compiled(<<Alt(<<One({","} \cup Space)>>, <<>>)>>, NoNames)
           [] src = ShapeIdRe ->
                Compiled(<<AltDollar(<<Rep(IdClass, 3, -1)>>, <<>>)>>, NoNames)
           [] src = ShapeDateRe ->
                Compiled(<<AltDollar(<<Rep(Digit, 4, 4), One({"-"}), Rep(Digit, 2, 2),
                                       One({"-"}), Rep(Digit, 2, 2)>>, <<>>)>>, NoNames)
           [] src = ShapeNumRe ->
                Compiled(<<AltDollar(<<Rep(Digit, 1, -1), One({"."}), Rep(Digit, 2, 2)>>,
                                     <<OptGroup(2, 3)>>),
                           AltDollar(<<Rep(Digit, 1, -1)>>, <<OptGroup(1, 0)>>)>>, NoNames)

\* the number of characters of s from position pos on that lie in cls, at most
\* max of them (max -1: no limit)
RunTo(cls, s, pos, last) ==
    LET stops == {i \in pos..last : s[i] \notin cls}
    IN IF stops = {} THEN last + 1 - pos ELSE SetMin(stops) - pos

Run(cls, s, pos, max) ==
    RunTo(cls, s, pos, IF max = -1 THEN Len(s) ELSE Min(Len(s), pos + max - 1))

\* $ without re.MULTILINE: the end of the string, or just before a final newline
AtDollar(s, pos) == pos = Len(s) + 1 \/ (pos = Len(s) /\ s[pos] = "\n")

NoMatch == [ok |-> FALSE, ends |-> <<>>]

\* atoms k.. of the alternative matched at pos: the position after each atom.
\* MatchCounts tries the repetition counts c of atom k in the order of the
\* backtracking: from hi down for a greedy atom, from lo up for a lazy one.
RECURSIVE MatchAtoms(_, _, _, _), MatchCounts(_, _, _, _, _, _, _)
MatchRest(rest, alt, k, s, pos, c, lo, hi) ==
    IF rest.ok THEN [ok |-> TRUE, ends |-> <<pos + c>> \o rest.ends]
    ELSE IF alt.atoms[k].lazy /\ c < hi THEN MatchCounts(alt, k, s, pos, c + 1, lo, hi)
    ELSE IF ~alt.atoms[k].lazy /\ c > lo THEN MatchCounts(alt, k, s, pos, c - 1, lo, hi)
    ELSE NoMatch

MatchCounts(alt, k, s, pos, c, lo, hi) ==
    MatchRest(MatchAtoms(alt, k + 1, s, pos + c), alt, k, s, pos, c, lo, hi)

MatchRange(alt, k, s, pos, lo, hi) ==
    IF hi < lo THEN NoMatch
    ELSE MatchCounts(alt, k, s, pos, IF alt.atoms[k].lazy THEN lo ELSE hi, lo, hi)

MatchAtoms(alt, k, s, pos) ==
    IF k > Len(alt.atoms)
    THEN IF alt.dollar /\ ~AtDollar(s, pos) THEN NoMatch ELSE [ok |-> TRUE, ends |-> <<>>]
    ELSE MatchRange(alt, k, s, pos, alt.atoms[k].min,
                    Run(alt.atoms[k].cls, s, pos, alt.atoms[k].max))

\* the match object of one alternative matched at pos, with the ends of its atoms
GroupStart(g, pos, ends) == IF g.from = 1 THEN pos ELSE ends[g.from - 1]
GroupEnd(g, pos, ends) == IF g.to = 0 THEN pos ELSE ends[g.to]
GroupValue(g, s, pos, ends) ==
    IF g.opt /\ GroupEnd(g, pos, ends) <= GroupStart(g, pos, ends) THEN None
    ELSE Str(SubSeq(s, GroupStart(g, pos, ends), GroupEnd(g, pos, ends) - 1))

MatchWithGroups(c, s, pos, last, groups) ==
    [found |-> TRUE,
     start |-> pos,
     end |-> last,
     group0 |-> Str(SubSeq(s, pos, last - 1)),
     groups |-> groups,
     groupdict |-> [n \in DOMAIN c.names |-> groups[c.names[n]]]]

MatchObject(c, alt, s, pos, ends) ==
    MatchWithGroups(c, s, pos, IF ends = <<>> THEN pos ELSE ends[Len(ends)],
                    [i \in 1..Len(alt.groups) |-> GroupValue(alt.groups[i], s, pos, ends)])

NotFound == [found |-> FALSE, start |-> 0, end |-> 0, group0 |-> None,
             groups |-> <<>>, groupdict |-> <<>>]

\* regex.match at one position: the first alternative, from i on, that matches there
RECURSIVE MatchHereFrom(_, _, _, _)
MatchAlt(m, c, s, pos, i) ==
    IF m.ok THEN MatchObject(c, c.alts[i], s, pos, m.ends)
    ELSE MatchHereFrom(c, s, pos, i + 1)

MatchHereFrom(c, s, pos, i) ==
    IF i > Len(c.alts) THEN NotFound
    ELSE MatchAlt(MatchAtoms(c.alts[i], 1, s, pos), c, s, pos, i)

MatchHere(c, s, pos) == MatchHereFrom(c, s, pos, 1)

\* re.match: at the start of the string only
ReMatch(c, s) == MatchHere(c, s, 1)

\* an alternative can match at pos only if its first atom may be empty or
\* takes the character at pos
CanStart(c, s, pos) ==
    \E i \in 1..Len(c.alts) :
        \/ c.alts[i].atoms = <<>>
        \/ c.alts[i].atoms[1].min = 0
        \/ pos <= Len(s) /\ s[pos] \in c.alts[i].atoms[1].cls

\* regex.search: the leftmost position, from pos on, with a match
SearchStarts(c, s, starts) == IF starts = {} THEN NotFound ELSE MatchHere(c, s, SetMin(starts))

ReSearchFrom(c, s, pos) ==
    SearchStarts(c, s, {p \in pos..(Len(s) + 1) : CanStart(c, s, p) /\ MatchHere(c, s, p).found})

ReSearch(c, s) == ReSearchFrom(c, s, 1)

\* re.sub(c, '', s): every match removed (the matches here are never empty)
RECURSIVE ReSubEmpty(_, _, _)
SubMatch(m, c, s, from) ==
    IF ~m.found \/ m.end = m.start THEN SubSeq(s, from, Len(s))
    ELSE SubSeq(s, from, m.start - 1) \o ReSubEmpty(c, s, m.end)

ReSubEmpty(c, s, from) == SubMatch(ReSearchFrom(c, s, from), c, s, from)

(***************************************************************************)
(* postprocess_value                                                       *)
(***************************************************************************)
Returned(v) == [exc |-> "", val |-> v]
Raised(e) == [exc |-> e, val |-> None]

\* str.strip()
Strip(s) ==
    LET keep == {i \in 1..Len(s) : s[i] \notin Space}
    IN IF keep = {} THEN <<>> ELSE SubSeq(s, SetMin(keep), SetMax(keep))

\* str.zfill(width) of a string of digits
RECURSIVE ZFill(_, _)
ZFill(s, width) == IF Len(s) >= width THEN s ELSE ZFill(<<"0">> \o s, width)

\* re.sub(pattern, '', value) of the currency branch
SubCompiled(c, value) ==
    IF ~c.ok THEN Raised("re.error")
    ELSE IF value.none THEN Raised("TypeError")
    ELSE Returned(Str(ReSubEmpty(c, value.str, 1)))

SubEmpty(pattern, value) == SubCompiled(CompilePlain(pattern), value)

PostprocessStrip(value) ==
    IF value.none THEN Raised("AttributeError") ELSE Returned(Str(Strip(value.str)))

\* month, day, year = date_match.groups()
DateOf(month, day, year) == year \o <<"-">> \o ZFill(month, 2) \o <<"-">> \o ZFill(day, 2)

DateMatched(date_match, value) ==
    IF date_match.found
    THEN Returned(Str(DateOf(date_match.groups[1].str, date_match.groups[2].str,
                             date_match.groups[3].str)))
    ELSE Returned(value)

PostprocessDate(value) ==
    IF value.none THEN Raised("TypeError")
    ELSE DateMatched(ReSearch(CompilePlain(PostDateRe), value.str), value)

SymbolsRemoved(noSymbols) ==
    IF noSymbols.exc # "" THEN noSymbols ELSE SubEmpty(PostCurrencySepRe, noSymbols.val)

PostprocessCurrency(value) == SymbolsRemoved(SubEmpty(PostCurrencySymRe, value))

postprocess_value(value, postprocess_type) ==
    IF postprocess_type = "strip" THEN PostprocessStrip(value)
    ELSE IF postprocess_type = "date" THEN PostprocessDate(value)
    ELSE IF postprocess_type = "currency" THEN PostprocessCurrency(value)
    ELSE Returned(value)

(***************************************************************************)
(* extract_fields                                                          *)
(***************************************************************************)
\* dict.get(key, default)
Get(d, key, default) == IF key \in DOMAIN d THEN d[key] ELSE default

LooksLike(shape, processed_value) == ReMatch(CompilePlain(shape), processed_value).found

\* the confidence of a matched field, in tenths, before the clamp
ConfidenceStacked(pattern, processed_value) ==
    (IF Len(pattern) > 30 THEN 8 ELSE 6)
    + (IF LooksLike(ShapeIdRe, processed_value) THEN 1 ELSE 0)
    + (IF LooksLike(ShapeDateRe, processed_value) THEN 1 ELSE 0)
    + (IF LooksLike(ShapeNumRe, processed_value) THEN 1 ELSE 0)

Confidence(pattern, processed_value) ==
    (IF Len(pattern) > 30 THEN 8 ELSE 6)
    + (IF LooksLike(ShapeIdRe, processed_value) THEN 1
       ELSE IF LooksLike(ShapeDateRe, processed_value) THEN 1
       ELSE IF LooksLike(ShapeNumRe, processed_value) THEN 1
       ELSE 0)

\* what one iteration does to the result map and to the list of confidences
Skip == [exc |-> "", put |-> FALSE, entry |-> [value |-> <<>>, confidence |-> 0], append |-> <<>>]
Placeholder ==
    [exc |-> "", put |-> TRUE, entry |-> [value |-> <<>>, confidence |-> 0], append |-> <<0>>]
Propagate(e) ==
    [exc |-> e, put |-> FALSE, entry |-> [value |-> <<>>, confidence |-> 0], append |-> <<>>]

OnMatch(processed_value, confidence) ==
    [exc |-> "", put |-> TRUE,
     entry |-> [value |-> processed_value, confidence |-> Min(10, confidence)],
     append |-> <<confidence>>]

OnNoMatchAlways(required) == Placeholder
OnNoMatchUncounted(required) ==
    IF required
    THEN [exc |-> "", put |-> TRUE, entry |-> [value |-> <<>>, confidence |-> 0], append |-> <<>>]
    ELSE Skip
OnNoMatch(required) == IF required THEN Placeholder ELSE Skip

OnExceptionPass(required) == Skip
OnException(required) == IF required THEN Placeholder ELSE Skip

\* except Exception: every exception the try block can raise derives from Exception
CaughtReErrorOnly(e) == e = "re.error"
Caught(e) == e \in {"re.error", "AttributeError", "TypeError", "KeyError"}

\* match.group('value'), else match.group(1), else match.group(0)
MatchValue(match) ==
    IF "value" \in DOMAIN match.groupdict THEN match.groupdict["value"]
    ELSE IF match.groups # <<>> THEN match.groups[1]
    ELSE match.group0

\* the try block of one iteration: the exception it raises, or what it found
NotMatched == [exc |-> "", matched |-> FALSE, value |-> None, processed |-> <<>>, confidence |-> 0]
TryRaised(e) == [exc |-> e, matched |-> FALSE, value |-> None, processed |-> <<>>, confidence |-> 0]

\* the confidence heuristic, on the value postprocess_value gave
TryScore(value, processed, pattern) ==
    IF processed.exc # "" THEN TryRaised(processed.exc)
    \* re.match(shape, None)
    ELSE IF processed.val.none THEN TryRaised("TypeError")
    ELSE [exc |-> "", matched |-> TRUE, value |-> value, processed |-> processed.val.str,
          confidence |-> Confidence(pattern, processed.val.str)]

\* if match: the value and its post-processing
TryMatch(match, pattern, postprocess) ==
    IF ~match.found THEN NotMatched
    ELSE TryScore(MatchValue(match), postprocess_value(MatchValue(match), postprocess), pattern)

\* regex.search(text)
TrySearch(regex, txt, pattern, postprocess) ==
    IF ~regex.ok THEN TryRaised("re.error")
    ELSE TryMatch(ReSearch(regex, txt), pattern, postprocess)

TryBlock(txt, pattern, postprocess) ==
    TrySearch(CompileField(pattern), txt, pattern, postprocess)

\* the except clause and the required-field policy, on what the try block did
Handle(t, required) ==
    IF t.exc # ""
    THEN IF Caught(t.exc) THEN OnException(required) ELSE Propagate(t.exc)
    ELSE IF t.matched THEN OnMatch(t.processed, t.confidence)
    ELSE OnNoMatch(required)

\* the body of the loop for one (field_name, field_config);
\* field_config["pattern"] is read before the try block is entered
ProcessField(txt, field_config) ==
    IF "pattern" \notin DOMAIN field_config THEN Propagate("KeyError")
    ELSE Handle(TryBlock(txt, field_config["pattern"],
                         Get(field_config, "postprocess", "strip")),
                Get(field_config, "required", TRUE))

RECURSIVE Sum(_)
Sum(s) == IF s = <<>> THEN 0 ELSE s[1] + Sum(Tail(s))

\* sum(confidences) / len(confidences) if confidences else 0.0
Average(cs) == IF cs # <<>> THEN <<Sum(cs), Len(cs)>> ELSE <<0, 1>>

NoFields == <<>>
NoRet == [fields |-> NoFields, avg |-> <<0, 1>>]

\* fields[field_name] = entry
Put(d, field_name, entry) == (field_name :> entry) @@ d

\* the same assignment on the dict that is local to the call of request r
StoreShared(fs, r, field_name, entry) == [q \in DOMAIN fs |-> Put(fs[q], field_name, entry)]
Store(fs, r, field_name, entry) == [fs EXCEPT ![r] = Put(@, field_name, entry)]

\* the call extract_fields(text, template) as a whole: the exception that leaves
\* it, or the pair it returns
RECURSIVE ExtractFieldsFrom(_, _, _, _, _)
ExtractFieldsNext(d, txt, items, i, fs, cs) ==
    IF d.exc # "" THEN [exc |-> d.exc, fields |-> NoFields, avg |-> <<0, 1>>]
    ELSE ExtractFieldsFrom(txt, items, i + 1,
                           IF d.put THEN Put(fs, items[i].name, d.entry) ELSE fs,
                           cs \o d.append)

ExtractFieldsFrom(txt, items, i, fs, cs) ==
    IF i > Len(items) THEN [exc |-> "", fields |-> fs, avg |-> Average(cs)]
    ELSE ExtractFieldsNext(ProcessField(txt, items[i].config), txt, items, i, fs, cs)

ExtractFields(txt, tpl) ==
    IF "fields" \notin DOMAIN tpl THEN [exc |-> "KeyError", fields |-> NoFields, avg |-> <<0, 1>>]
    ELSE ExtractFieldsFrom(txt, tpl["fields"], 1, NoFields, <<>>)

\* what one iteration leaves in the state of request r
Iterate(r, field_name, d) ==
    IF d.exc # ""
    THEN /\ pc' = [pc EXCEPT ![r] = "raised"]
         /\ UNCHANGED <<idx, fields, confidences>>
    ELSE /\ fields' = IF d.put THEN Store(fields, r, field_name, d.entry) ELSE fields
         /\ confidences' = [confidences EXCEPT ![r] = @ \o d.append]
         /\ idx' = [idx EXCEPT ![r] = @ + 1]
         /\ UNCHANGED pc

\* one iteration of the loop over template["fields"].items()
ExtractFieldsStep(r) ==
    /\ pc[r] = "loop"
    /\ IF "fields" \notin DOMAIN template[r]
       THEN /\ pc' = [pc EXCEPT ![r] = "raised"]
            /\ UNCHANGED <<idx, fields, confidences>>
       ELSE /\ idx[r] <= Len(template[r]["fields"])
            /\ Iterate(r, template[r]["fields"][idx[r]].name,
                       ProcessField(text[r], template[r]["fields"][idx[r]].config))
    /\ UNCHANGED <<TEMPLATES, request, template, text, ret, response, calls, pp>>

\* return fields, average
ExtractFieldsReturn(r) ==
    /\ pc[r] = "loop"
    /\ "fields" \in DOMAIN template[r]
    /\ idx[r] > Len(template[r]["fields"])
    /\ ret' = [ret EXCEPT ![r] = [fields |-> fields[r], avg |-> Average(confidences[r])]]
    /\ pc' = [pc EXCEPT ![r] = "returned"]
    /\ UNCHANGED <<TEMPLATES, request, template, text, idx, fields, confidences,
                   response, calls, pp>>

(***************************************************************************)
(* The template catalog and the request handlers                           *)
(***************************************************************************)
Field(name, pattern, postprocess, required) ==
    [name |-> name,
     config |-> [pattern |-> pattern, postprocess |-> postprocess, required |-> required]]

BuiltinTemplates ==
    [invoice_v1 |->
        [name |-> "invoice_v1",
         fields |-> <<Field("invoice_number", PatInvoiceNumber, "strip", TRUE),
                      Field("invoice_date", PatInvoiceDate, "date", TRUE),
                      Field("total_amount", PatInvoiceTotal, "currency", TRUE),
                      Field("currency", PatCurrency, "strip", FALSE)>>],
     receipt_v1 |->
        [name |-> "receipt_v1",
         fields |-> <<Field("store_name", PatStoreName, "strip", TRUE),
                      Field("total_amount", PatReceiptTotal, "currency", TRUE),
                      Field("date", PatReceiptDate, "date", TRUE)>>]]

\* the template_name values of a request
TemplateNames == {"invoice_v1", "receipt_v1", "invoice_v2"}

\* the template_json values of a request: text that is no JSON, objects without
\* the name or the fields key, the template test_examples.py sends, and a template
\* whose only pattern does not compile
CustomTemplate ==
    [name |-> "custom_invoice",
     fields |-> <<Field("invoice_number", PatCustomInvoiceNumber, "strip", TRUE),
                  Field("total", PatCustomTotal, "currency", TRUE)>>]
BrokenPatternTemplate ==
    [name |-> "broken",
     fields |-> <<[name |-> "code", config |-> [pattern |-> PatUnclosed]]>>]
NoJson == [wellformed |-> FALSE, obj |-> <<>>]
Json(obj) == [wellformed |-> TRUE, obj |-> obj]
TemplateJsons ==
    {NoJson, Json(<<>>), Json([name |-> "only_name"]),
     Json([fields |-> CustomTemplate["fields"]]),
     Json(CustomTemplate), Json(BrokenPatternTemplate)}

\* file.content_type (None is "") and file.size (None is 0)
ContentTypes == {"", "application/pdf", "text/plain"}
StartsWithApplicationPdf(content_type) ==
    content_type \in {"application/pdf"}
NotPdf(content_type) == content_type = "" \/ ~StartsWithApplicationPdf(content_type)
MaxUploadBytes == 10 * 1024 * 1024
FileSizes == {0, MaxUploadBytes, MaxUploadBytes + 1}
TooLarge(size) == size # 0 /\ size > MaxUploadBytes

\* extract_text_from_pdf: the text of the document, or HTTPException(400)
PdfTexts == {TextSample, TextSparse, TextPadded}
PdfOutcomes == {[ok |-> FALSE, text |-> <<>>]} \cup {[ok |-> TRUE, text |-> t] : t \in PdfTexts}

\* len(text.strip()) < 10
MinTextChars == 10
TooShortUnstripped(txt) == Len(txt) < MinTextChars
TooShort(txt) == Len(Strip(txt)) < MinTextChars

\* "name" not in template or "fields" not in template
MissingKeysBoth(tpl) == "name" \notin DOMAIN tpl /\ "fields" \notin DOMAIN tpl
MissingKeys(tpl) == "name" \notin DOMAIN tpl \/ "fields" \notin DOMAIN tpl

NoTemplate == [name |-> "", fields |-> <<>>]
NoRequest == [endpoint |-> "", template_name |-> "", template_json |-> NoJson]
DataRequest(template_name) ==
    [endpoint |-> "extract_data", template_name |-> template_name, template_json |-> NoJson]
CustomRequest(template_json) ==
    [endpoint |-> "extract_custom", template_name |-> "", template_json |-> template_json]
DirectCall == [endpoint |-> "direct", template_name |-> "", template_json |-> NoJson]
NoResponse == [status |-> 0, detail |-> "", body |-> <<>>]
IdlePp == [state |-> "idle", value |-> <<>>, kind |-> "", out |-> Returned(None)]

\* raise HTTPException(status_code, detail), which leaves the handler
Reject(r, req, txt, status_code, detail) ==
    /\ response' = [response EXCEPT ![r] = [status |-> status_code, detail |-> detail,
                                            body |-> <<>>]]
    /\ request' = [request EXCEPT ![r] = req]
    /\ text' = [text EXCEPT ![r] = txt]
    /\ pc' = [pc EXCEPT ![r] = "done"]
    /\ UNCHANGED <<TEMPLATES, template, idx, fields, confidences, ret, calls, pp>>

\* the handler goes on to await file.read() with the template it found
Accept(r, req, tpl) ==
    /\ request' = [request EXCEPT ![r] = req]
    /\ template' = [template EXCEPT ![r] = tpl]
    /\ pc' = [pc EXCEPT ![r] = "read"]
    /\ UNCHANGED <<TEMPLATES, text, idx, fields, confidences, ret, response, calls, pp>>

\* extract_data up to the await of file.read()
ExtractDataValidate(r) ==
    /\ pc[r] = "new"
    /\ \E content_type \in ContentTypes :
          IF NotPdf(content_type)
          THEN Reject(r, DataRequest(""), <<>>, 400, "File must be a PDF")
          ELSE \E size \in FileSizes :
             IF TooLarge(size)
             THEN Reject(r, DataRequest(""), <<>>, 413, "File too large. Maximum size is 10MB")
             ELSE \E template_name \in TemplateNames :
                IF template_name \notin DOMAIN TEMPLATES
                THEN Reject(r, DataRequest(template_name), <<>>, 404, "Template not found")
                ELSE Accept(r, DataRequest(template_name), TEMPLATES[template_name])

\* extract_custom up to the await of file.read()
ExtractCustomValidate(r) ==
    /\ pc[r] = "new"
    /\ \E content_type \in ContentTypes :
          IF NotPdf(content_type)
          THEN Reject(r, CustomRequest(NoJson), <<>>, 400, "File must be a PDF")
          ELSE \E size \in FileSizes :
             IF TooLarge(size)
             THEN Reject(r, CustomRequest(NoJson), <<>>, 413,
                         "File too large. Maximum size is 10MB")
             ELSE \E template_json \in TemplateJsons :
                IF ~template_json.wellformed
                THEN Reject(r, CustomRequest(template_json), <<>>, 400, "Invalid JSON in template")
                ELSE IF MissingKeys(template_json.obj)
                THEN Reject(r, CustomRequest(template_json), <<>>, 400,
                            "Template must have 'name' and 'fields'")
                ELSE Accept(r, CustomRequest(template_json), template_json.obj)

\* the call of extract_fields and the response built from what it returns; an
\* exception other than HTTPException becomes a 500
Respond(r, txt, result, template_used, failed) ==
    /\ response' = [response EXCEPT ![r] =
                      IF result.exc # "" \/ failed
                      THEN [status |-> 500, detail |-> "Internal server error", body |-> <<>>]
                      ELSE [status |-> 200, detail |-> "",
                            body |-> [template_used |-> template_used,
                                      fields |-> result.fields,
                                      raw_text_chars |-> Len(txt),
                                      confidence_avg |-> result.avg]]]
    /\ text' = [text EXCEPT ![r] = txt]
    /\ ret' = [ret EXCEPT ![r] = [fields |-> result.fields, avg |-> result.avg]]
    /\ calls' = calls \cup {[endpoint |-> request[r].endpoint, text |-> txt,
                             template |-> template[r]]}
    /\ pc' = [pc EXCEPT ![r] = "done"]
    /\ UNCHANGED <<TEMPLATES, request, template, idx, fields, confidences, pp>>

\* from the text of the document to the response: no await in between
ReadText(r, pdf, template_used, failed) ==
    IF ~pdf.ok
    THEN Reject(r, request[r], <<>>, 400, "Could not extract text from PDF")
    ELSE IF TooShort(pdf.text)
    THEN Reject(r, request[r], pdf.text, 400, "PDF appears to be empty or unreadable")
    ELSE Respond(r, pdf.text, ExtractFields(pdf.text, template[r]), template_used, failed)

\* extract_data after the await of file.read()
ExtractDataRead(r) ==
    /\ pc[r] = "read"
    /\ request[r].endpoint = "extract_data"
    /\ \E pdf \in PdfOutcomes : ReadText(r, pdf, request[r].template_name, FALSE)

\* extract_custom after the await of file.read(); template["name"] is read last
ExtractCustomRead(r) ==
    /\ pc[r] = "read"
    /\ request[r].endpoint = "extract_custom"
    /\ \E pdf \in PdfOutcomes :
          ReadText(r, pdf, Get(template[r], "name", ""), "name" \notin DOMAIN template[r])

(***************************************************************************)
(* Specifications                                                          *)
(***************************************************************************)
\* concurrent requests against the two endpoints
Init ==
    /\ TEMPLATES = BuiltinTemplates
    /\ pc = [r \in Reqs |-> "new"]
    /\ request = [r \in Reqs |-> NoRequest]
    /\ template = [r \in Reqs |-> NoTemplate]
    /\ text = [r \in Reqs |-> <<>>]
    /\ idx = [r \in Reqs |-> 0]
    /\ fields = [r \in Reqs |-> NoFields]
    /\ confidences = [r \in Reqs |-> <<>>]
    /\ ret = [r \in Reqs |-> NoRet]
    /\ response = [r \in Reqs |-> NoResponse]
    /\ calls = {}
    /\ pp = IdlePp

Next ==
    \E r \in Reqs :
        \/ ExtractDataValidate(r)
        \/ ExtractDataRead(r)
        \/ ExtractCustomValidate(r)
        \/ ExtractCustomRead(r)

Spec == Init /\ [][Next]_vars

\* extract_fields called once, on every text and template of the bounded sets
FieldConfigs ==
    {[pattern |-> PatCustomInvoiceNumber, postprocess |-> "strip", required |-> TRUE],
     [pattern |-> PatSampleDate, postprocess |-> "date", required |-> TRUE],
     [pattern |-> PatInvoiceDate, postprocess |-> "date", required |-> TRUE],
     [pattern |-> PatCustomTotal, postprocess |-> "currency", required |-> TRUE],
     [pattern |-> PatSampleAmount, postprocess |-> "currency", required |-> FALSE],
     [pattern |-> PatCurrency, postprocess |-> "strip", required |-> FALSE],
     [pattern |-> PatDigits],
     [pattern |-> PatWord, postprocess |-> "upper", required |-> FALSE],
     [pattern |-> PatUnclosed, postprocess |-> "strip", required |-> TRUE],
     [pattern |-> PatInvoiceTotal, postprocess |-> "currency", required |-> FALSE],
     [pattern |-> PatOptionalHash, postprocess |-> "strip", required |-> TRUE],
     [postprocess |-> "strip", required |-> TRUE]}

FieldNamePool == <<"field_1", "field_2", "field_3", "field_4">>
ExtractTexts == {TextSample, TextReceipt, TextSparse, TextEmpty}
GeneratedTemplates ==
    {[name |-> "generated",
      fields |-> [i \in 1..n |-> [name |-> FieldNamePool[i], config |-> cfgs[i]]]] :
        n \in 0..MaxFields, cfgs \in [1..MaxFields -> FieldConfigs]}

InitExtract ==
    /\ TEMPLATES = BuiltinTemplates
    /\ pc = [r \in Reqs |-> IF r = 1 THEN "loop" ELSE "off"]
    /\ request = [r \in Reqs |-> IF r = 1 THEN DirectCall ELSE NoRequest]
    /\ \E txt \in ExtractTexts, tpl \in GeneratedTemplates :
          /\ text = [r \in Reqs |-> IF r = 1 THEN txt ELSE <<>>]
          /\ template = [r \in Reqs |-> IF r = 1 THEN tpl ELSE NoTemplate]
          /\ calls = {[endpoint |-> "direct", text |-> txt, template |-> tpl]}
    /\ idx = [r \in Reqs |-> IF r = 1 THEN 1 ELSE 0]
    /\ fields = [r \in Reqs |-> NoFields]
    /\ confidences = [r \in Reqs |-> <<>>]
    /\ ret = [r \in Reqs |-> NoRet]
    /\ response = [r \in Reqs |-> NoResponse]
    /\ pp = IdlePp

NextExtract == \E r \in Reqs : ExtractFieldsStep(r) \/ ExtractFieldsReturn(r)

SpecExtract == InitExtract /\ [][NextExtract]_vars

\* concurrent calls of extract_fields, interleaved iteration by iteration
ConcurrentTexts == {TextSample, TextSparse}
ConcurrentTemplates == {BuiltinTemplates["invoice_v1"], CustomTemplate}

InitConcurrent ==
    /\ TEMPLATES = BuiltinTemplates
    /\ pc = [r \in Reqs |-> "loop"]
    /\ request = [r \in Reqs |-> DirectCall]
    /\ text \in [Reqs -> ConcurrentTexts]
    /\ template \in [Reqs -> ConcurrentTemplates]
    /\ calls = {[endpoint |-> "direct", text |-> text[r], template |-> template[r]] :
                   r \in Reqs}
    /\ idx = [r \in Reqs |-> 1]
    /\ fields = [r \in Reqs |-> NoFields]
    /\ confidences = [r \in Reqs |-> <<>>]
    /\ ret = [r \in Reqs |-> NoRet]
    /\ response = [r \in Reqs |-> NoResponse]
    /\ pp = IdlePp

SpecConcurrent == InitConcurrent /\ [][NextExtract]_vars

\* postprocess_value called once, on every raw string and kind of the bounded sets
RawAlphabet == {" ", "$", ",", ".", "1", "A"}
RECURSIVE StringsUpTo(_)
StringsUpTo(n) ==
    IF n = 0 THEN {<<>>}
    ELSE LET shorter == StringsUpTo(n - 1)
         IN shorter \cup {Append(s, c) : s \in shorter, c \in RawAlphabet}
\* 9 characters
RawAmount ==
    <<"$","1",",","2","5","0",".","0","0">>
\* 16 characters
RawDate ==
    <<"D","a","t","e",":"," ","0","1","/","1","5","/","2","0","2","4">>
\* 19 characters
RawDashedDate ==
    <<"1","-","5","-","2","0","2","4"," ","0","1","-","1","5","-","2","0","2","4">>
\* 14 characters
RawInvoiceNumber ==
    <<" ","I","N","V","-","2","0","2","4","-","0","0","1","\n">>
RawStrings == StringsUpTo(MaxLen) \cup {RawAmount, RawDate, RawDashedDate, RawInvoiceNumber}
Kinds == {"strip", "date", "currency", "upper", ""}

InitNormalize ==
    /\ TEMPLATES = BuiltinTemplates
    /\ pc = [r \in Reqs |-> "off"]
    /\ request = [r \in Reqs |-> NoRequest]
    /\ template = [r \in Reqs |-> NoTemplate]
    /\ text = [r \in Reqs |-> <<>>]
    /\ idx = [r \in Reqs |-> 0]
    /\ fields = [r \in Reqs |-> NoFields]
    /\ confidences = [r \in Reqs |-> <<>>]
    /\ ret = [r \in Reqs |-> NoRet]
    /\ response = [r \in Reqs |-> NoResponse]
    /\ calls = {}
    /\ \E value \in RawStrings, kind \in Kinds :
          pp = [state |-> "call", value |-> value, kind |-> kind, out |-> Returned(None)]

\* the call postprocess_value(value, kind) returns or raises
PostprocessEnd(out) ==
    pp' = [pp EXCEPT !.state = IF out.exc # "" THEN "raised" ELSE "returned", !.out = out]

PostprocessCall ==
    /\ pp.state = "call"
    /\ PostprocessEnd(postprocess_value(Str(pp.value), pp.kind))
    /\ UNCHANGED <<TEMPLATES, pc, request, template, text, idx, fields, confidences,
                   ret, response, calls>>

NextNormalize == PostprocessCall

SpecNormalize == InitNormalize /\ [][NextNormalize]_vars


(***************************************************************************)
(* Properties of extract_fields                                            *)
(***************************************************************************)
\* the items of template["fields"] the loop of request r has gone through
Items(r) == template[r]["fields"]
Done(r) == IF "fields" \in DOMAIN template[r] THEN 1..(idx[r] - 1) ELSE {}
NameOf(r, i) == Items(r)[i].name
PatternOf(r, i) == Items(r)[i].config["pattern"]
KindOf(r, i) == Get(Items(r)[i].config, "postprocess", "strip")
RequiredOf(r, i) == Get(Items(r)[i].config, "required", TRUE)

\* what the try block did for item i of request r
Tried(r, i) == TryBlock(text[r], PatternOf(r, i), KindOf(r, i))
Failed(t) == t.exc # "" \/ ~t.matched
Matched(t) == t.exc = "" /\ t.matched

\* a template every field of which has a pattern
WellFormed(tpl) ==
    /\ "fields" \in DOMAIN tpl
    /\ \A i \in DOMAIN tpl["fields"] : "pattern" \in DOMAIN tpl["fields"][i].config

\* an average <<sum, count>> of tenths that lies in [0.0, 1.0]
InUnitInterval(avg) == avg[2] > 0 /\ 0 <= avg[1] /\ avg[1] <= 10 * avg[2]

\* C1: on every text and every template whose fields all have a pattern,
\* extract_fields never raises, and what it returns is a map over the template's
\* field names together with an average confidence in [0.0, 1.0]
C1_ExtractFieldsTotal ==
    \A r \in Reqs :
        WellFormed(template[r]) =>
            /\ pc[r] # "raised"
            /\ pc[r] = "returned" =>
                  /\ DOMAIN ret[r].fields \subseteq {NameOf(r, i) : i \in DOMAIN Items(r)}
                  /\ \A n \in DOMAIN ret[r].fields : ret[r].fields[n].confidence \in 0..10
                  /\ InUnitInterval(ret[r].avg)

\* a call that returned although one pattern did not compile and the value of
\* another field was None
C1_Witness ==
    \E r \in Reqs :
        /\ pc[r] = "returned"
        /\ \E i \in Done(r) : Tried(r, i).exc = "re.error"
        /\ \E i \in Done(r) : Tried(r, i).exc \in {"AttributeError", "TypeError"}

\* a required field whose pattern did not match, or whose processing raised, is
\* in the result map with value "" and confidence 0.0
C2_PlaceholderStored ==
    \A r \in Reqs : \A i \in Done(r) :
        (RequiredOf(r, i) /\ Failed(Tried(r, i))) =>
            /\ NameOf(r, i) \in DOMAIN fields[r]
            /\ fields[r][NameOf(r, i)] = [value |-> <<>>, confidence |-> 0]

\* the iteration that processes such a field adds exactly one 0.0 to the
\* confidences
C2_PlaceholderCounted ==
    \A r \in Reqs :
        (/\ pc[r] = "loop"
         /\ idx'[r] = idx[r] + 1
         /\ RequiredOf(r, idx[r])
         /\ Failed(Tried(r, idx[r]))) =>
            confidences'[r] = Append(confidences[r], 0)

\* C2: required field, no match or any processing error: the map holds the field
\* with value "" and confidence 0.0, and exactly one 0.0 is counted for it
C2_RequiredFieldPlaceholder == []C2_PlaceholderStored /\ [][C2_PlaceholderCounted]_vars

\* a returned call with a required field that did not match and a required field
\* whose processing raised
C2_Witness ==
    \E r \in Reqs :
        /\ pc[r] = "returned"
        /\ \E i \in Done(r) :
              RequiredOf(r, i) /\ Tried(r, i).exc = "" /\ ~Tried(r, i).matched
        /\ \E i \in Done(r) : RequiredOf(r, i) /\ Tried(r, i).exc # ""
        /\ confidences[r] = <<0, 0>>

\* no field of the template of request r contributes to the average
NoneContributes(r) == \A i \in Done(r) : ~RequiredOf(r, i) /\ Failed(Tried(r, i))

C3_OptionalOmitted ==
    \A r \in Reqs :
        /\ \A i \in Done(r) :
              (~RequiredOf(r, i) /\ Failed(Tried(r, i))) => NameOf(r, i) \notin DOMAIN fields[r]
        /\ (pc[r] = "returned" /\ NoneContributes(r)) => ret[r].avg[1] = 0

C3_OptionalUncounted ==
    \A r \in Reqs :
        (/\ pc[r] = "loop"
         /\ idx'[r] = idx[r] + 1
         /\ ~RequiredOf(r, idx[r])
         /\ Failed(Tried(r, idx[r]))) =>
            /\ confidences'[r] = confidences[r]
            /\ fields'[r] = fields[r]

\* C3: optional field, no match or any processing error: the field is absent from
\* the map and adds nothing to the confidences; when no field contributes, the
\* average returned is exactly 0.0
C3_OptionalFieldOmitted == []C3_OptionalOmitted /\ [][C3_OptionalUncounted]_vars

\* a returned call on a template whose fields are all optional, one not matching
\* and one raising
C3_Witness ==
    \E r \in Reqs :
        /\ pc[r] = "returned"
        /\ NoneContributes(r)
        /\ \E i \in Done(r) : Tried(r, i).exc = "" /\ ~Tried(r, i).matched
        /\ \E i \in Done(r) : Tried(r, i).exc # ""
        /\ ret[r] = [fields |-> NoFields, avg |-> <<0, 1>>]

\* the shapes a normalized value can have
Shapes == {ShapeIdRe, ShapeDateRe, ShapeNumRe}
ShapesOf(processed_value) == {shape \in Shapes : LooksLike(shape, processed_value)}

\* C4: the confidence reported for a matched field is the base (0.8 for a pattern
\* source of more than 30 characters, else 0.6) plus one 0.1 when the normalized
\* value has at least one of the three shapes, never more than one 0.1, and at
\* most 1.0
C4_ConfidenceHeuristic ==
    \A r \in Reqs : \A i \in Done(r) :
        Matched(Tried(r, i)) =>
            /\ NameOf(r, i) \in DOMAIN fields[r]
            /\ fields[r][NameOf(r, i)].confidence <= 10
            /\ fields[r][NameOf(r, i)].confidence =
                  Min(10, (IF Len(PatternOf(r, i)) > 30 THEN 8 ELSE 6)
                          + (IF ShapesOf(fields[r][NameOf(r, i)].value) # {} THEN 1 ELSE 0))

\* a matched field whose value has two shapes at once, reported with one bonus
C4_Witness ==
    \E r \in Reqs : \E i \in Done(r) :
        /\ Matched(Tried(r, i))
        /\ Cardinality(ShapesOf(fields[r][NameOf(r, i)].value)) >= 2
        /\ Len(PatternOf(r, i)) > 30
        /\ fields[r][NameOf(r, i)].confidence = 9

\* the sum of the confidences reported in a result map
RECURSIVE SumReported(_, _)
SumReported(fs, names) ==
    IF names = {} THEN 0
    ELSE fs[CHOOSE n \in names : TRUE].confidence
         + SumReported(fs, names \ {CHOOSE n \in names : TRUE})

\* avg = <<sum, count>> is the mean of the confidences reported in fs
IsMeanOf(avg, fs) ==
    IF DOMAIN fs = {} THEN avg[1] = 0
    ELSE avg[1] * Cardinality(DOMAIN fs) = SumReported(fs, DOMAIN fs) * avg[2]

\* C5: as many confidences are accumulated as the map has fields, and the average
\* returned is the mean of the confidences reported in the map
C5_AverageIsMeanOfMap ==
    \A r \in Reqs :
        /\ Len(confidences[r]) = Cardinality(DOMAIN fields[r])
        /\ pc[r] = "returned" => IsMeanOf(ret[r].avg, ret[r].fields)

\* a returned map with a matched field and a placeholder, averaged over both
C5_Witness ==
    \E r \in Reqs :
        /\ pc[r] = "returned"
        /\ Cardinality(DOMAIN ret[r].fields) = 2
        /\ \E i \in Done(r) : Matched(Tried(r, i))
        /\ \E i \in Done(r) : RequiredOf(r, i) /\ Failed(Tried(r, i))
        /\ ret[r].avg \in {<<6, 2>>, <<7, 2>>, <<8, 2>>, <<9, 2>>}

\* regex.search(text) finds the pattern of item i
Searched(r, i) == ReSearch(CompileField(PatternOf(r, i)), text[r])
PatternMatches(r, i) == CompileField(PatternOf(r, i)).ok /\ Searched(r, i).found

\* the normalization of the substring the match extracted
Normalized(r, i) == postprocess_value(MatchValue(Searched(r, i)), KindOf(r, i))

\* C10: every field whose pattern matches the text is in the map with the
\* normalization of the extracted substring (named group value, else group 1,
\* else the whole match) as its value, and with a confidence of at least 0.6
C10_MatchedFieldReported ==
    \A r \in Reqs : \A i \in Done(r) :
        PatternMatches(r, i) =>
            /\ Normalized(r, i).exc = ""
            /\ NameOf(r, i) \in DOMAIN fields[r]
            /\ Str(fields[r][NameOf(r, i)].value) = Normalized(r, i).val
            /\ fields[r][NameOf(r, i)].confidence >= 6

(***************************************************************************)
(* Properties of postprocess_value                                         *)
(***************************************************************************)
\* C6: postprocess_value returns a string for every raw string and every kind,
\* never raises, and returns the raw value unchanged for a kind it does not know
C6_PostprocessTotal ==
    /\ pp.state # "raised"
    /\ pp.state = "returned" =>
          /\ ~pp.out.val.none
          /\ pp.kind \notin {"strip", "date", "currency"} => pp.out.val = Str(pp.value)

(***************************************************************************)
(* Properties of the request handlers                                      *)
(***************************************************************************)
HasKeys(tpl) == "name" \in DOMAIN tpl /\ "fields" \in DOMAIN tpl
AllCompile(tpl) ==
    "fields" \in DOMAIN tpl =>
        \A i \in DOMAIN tpl["fields"] :
            "pattern" \in DOMAIN tpl["fields"][i].config
                => CompileField(tpl["fields"][i].config["pattern"]).ok
Malformed(tpl) == ~HasKeys(tpl) \/ ~AllCompile(tpl)

\* the custom-template requests whose template_json has been parsed as JSON
Parsed == {r \in Reqs : request[r].endpoint = "extract_custom"
                        /\ request[r].template_json.wellformed}
CustomCalls == {c \in calls : c.endpoint = "extract_custom"}
KeysDetail == "Template must have 'name' and 'fields'"

\* C7 as stated: a definition that misses name or fields, or that has a pattern
\* that does not compile, is rejected with a validation failure and
\* extract_fields is never invoked on it
C7_MalformedRejected ==
    /\ \A c \in CustomCalls : ~Malformed(c.template)
    /\ \A r \in Parsed :
          Malformed(request[r].template_json.obj) =>
              /\ pc[r] # "read"
              /\ pc[r] = "done" => response[r].status = 400

\* C7: a definition that misses name or fields is rejected with status 400 once
\* it is parsed, and extract_fields is never invoked on it; a definition that
\* has both keys is never rejected as a template, whether its patterns compile
\* or not
C7_MissingKeysRejected ==
    /\ \A c \in CustomCalls : "name" \in DOMAIN c.template /\ "fields" \in DOMAIN c.template
    /\ \A r \in Parsed :
          IF HasKeys(request[r].template_json.obj)
          THEN response[r].detail \notin {KeysDetail, "Invalid JSON in template"}
          ELSE /\ pc[r] = "done"
               /\ response[r].status = 400
               /\ response[r].detail = KeysDetail

\* one request rejected for a missing key, and another answered 200 after
\* extract_fields ran on a template whose pattern does not compile
C7_Witness ==
    /\ \E r \in Parsed :
          /\ ~HasKeys(request[r].template_json.obj)
          /\ response[r].status = 400
    /\ \E r \in Parsed :
          /\ ~AllCompile(request[r].template_json.obj)
          /\ response[r].status = 200
          /\ \E c \in CustomCalls : c.template = request[r].template_json.obj

\* the number of characters of a text that are not whitespace
NonWhitespace(txt) == Cardinality({i \in 1..Len(txt) : txt[i] \notin Space})
EmptyDetail == "PDF appears to be empty or unreadable"

\* C8 as stated: extract_fields is never invoked on a text with fewer than 10
\* characters that are not whitespace
C8_NonWhitespaceRejected == \A c \in calls : NonWhitespace(c.text) >= 10

\* C8: extract_fields is never invoked on a text that is shorter than 10
\* characters once its leading and trailing whitespace is removed; a request
\* with such a text is rejected with status 400
C8_StrippedLengthRejected ==
    /\ \A c \in calls : Len(Strip(c.text)) >= 10
    /\ \A r \in Reqs :
          (pc[r] = "done" /\ text[r] # <<>> /\ Len(Strip(text[r])) < 10) =>
              /\ response[r].status = 400
              /\ response[r].detail = EmptyDetail

\* one request rejected for its text, and extract_fields invoked on a text that
\* is long enough only because of the whitespace between its characters
C8_Witness ==
    /\ \E r \in Reqs :
          /\ text[r] # <<>>
          /\ Len(Strip(text[r])) < 10
          /\ response[r].detail = EmptyDetail
    /\ \E c \in calls :
          /\ c.endpoint \in {"extract_data", "extract_custom"}
          /\ NonWhitespace(c.text) < 10

\* what the call of request r returns when nothing else runs
Alone(r) == ExtractFields(text[r], template[r])

C9_SameAsAlone ==
    /\ TEMPLATES = BuiltinTemplates
    /\ \A r \in Reqs :
          /\ [endpoint |-> "direct", text |-> text[r], template |-> template[r]] \in calls
          /\ pc[r] # "raised"
          /\ pc[r] = "returned" =>
                Alone(r) = [exc |-> "", fields |-> ret[r].fields, avg |-> ret[r].avg]

C9_NothingSharedModified == TEMPLATES' = TEMPLATES /\ template' = template

\* C9: however concurrent calls interleave, none modifies the catalog or the
\* template it was given, and each returns the fields and the average it returns
\* when it runs alone on its text and template
C9_ConcurrentCallsIsolated == []C9_SameAsAlone /\ [][C9_NothingSharedModified]_vars

\* one call has returned while another, on a different template, is in the
\* middle of its loop with fields already stored
C9_Witness ==
    \E r \in Reqs : \E q \in Reqs \ {r} :
        /\ pc[r] = "returned"
        /\ ret[r].fields # NoFields
        /\ pc[q] = "loop"
        /\ idx[q] > 1
        /\ fields[q] # NoFields
        /\ template[q] # template[r]

====
